---- MODULE Spec2Model ----
(***************************************************************************)
(* Model of config233-go: the lock-free config store of manager.go         *)
(* (globalIdMaps / globalSlices, setConfigCache, BuildIdIndex,             *)
(* buildGlobalCaches and the generic readers) and the hot-reload           *)
(* coordinator of hot_reload.go (hotReloadState, addPendingReload,         *)
(* triggerBatchReload, batchReloadConfigs).                                *)
(***************************************************************************)
EXTENDS Integers, Sequences, FiniteSets, TLC

(***************************************************************************)
(* Bounds of the model.                                                    *)
(***************************************************************************)
\* load passes (one per file read + conversion) in a behaviour of the store
MaxPass == 2
\* BuildIdIndex / buildGlobalCaches calls in a behaviour of the store
MaxCopies == 1

\* file events delivered to the listener in a behaviour of the coordinator
MaxEvents == 3
\* timers armed plus timer callbacks not yet run, at any one time
MaxOutstanding == 2
\* calls of LoadAllConfigs and batchReloadConfigs in a behaviour of the manager
MaxOps == 2
\* reload functions that can be registered
MaxFuncs == 2
\* data rows of the file the Config233 facade reads
MaxRows == 2

\* hot_reload.go constants, in units of 100 ms
ReloadBatchDelay == 5
ReloadCooldown == 3
RetryDelay == 1
\* hrs.timer is nil, or the timer it refers to has fired
NoTimer == 0 - 1
\* batchReloadConfigs has not returned yet in this process
NoReloadYet == 0 - 1
\* a callback argument passed by value (a string), not a slice
NoArray == 0 - 1

\* registered business managers
Observers == {1, 2}

\* config names (file base names) and loader tasks
Names == {"A", "B"}
Loaders == {1, 2}
\* every file holds two rows, with ids 1 and 2
RecIds == {1, 2}

(***************************************************************************)
(* State of the store.                                                     *)
(***************************************************************************)
VARIABLES
    configs,        \* cm.configs: name -> DataList of the last stored pass
    configMaps,     \* cm.configMaps: name -> id map of the last stored pass
    idMapsHeap,     \* every top-level map ever published through globalIdMaps
    slicesHeap,     \* every top-level map ever published through globalSlices
    globalIdMaps,   \* the pointer held by the atomic.Value globalIdMaps
    globalSlices,   \* the pointer held by the atomic.Value globalSlices
    loader,         \* per load task: position and locals of load + setConfigCache
    builder,        \* the goroutine calling BuildIdIndex
    rebuilder,      \* the goroutine calling BuildAllIdIndexes / buildGlobalCaches
    reader,         \* the goroutine calling GetAllConfigList / GetConfigByIdWithName
    nextPass,       \* number of the next load pass
    nextCopy,       \* number of the next copied object
    overlap,        \* history: two load tasks of this name were in flight together
    casFailed       \* history: some CompareAndSwap of setConfigCache failed

storeVars == <<configs, configMaps, idMapsHeap, slicesHeap, globalIdMaps,
               globalSlices, loader, builder, rebuilder, reader, nextPass,
               nextCopy, overlap, casFailed>>

(***************************************************************************)
(* State of the hot-reload coordinator (one hotReloadState, created by     *)
(* StartWatching) and of what its batch reloads act on.  Time is relative: *)
(* a timer is its remaining delay, a timestamp is its age.                 *)
(***************************************************************************)
VARIABLES
    pendingReloads, \* hrs.pendingReloads
    timers,         \* armed time.AfterFunc timers: remaining delay -> how many
    hrsTimer,       \* remaining delay of the timer hrs.timer refers to, if armed
    callbacks,      \* fired timers whose triggerBatchReload waits for hrs.mutex
    lastReloadAge,  \* time since hrs.lastReloadTime, saturated at ReloadCooldown
    isReloading,    \* hrs.isReloading
    reloads,        \* triggerBatchReload calls between their two critical sections
    fileState,      \* the file of each config name: "ok", "bad" or "missing"
    crashed,        \* an unrecovered panic has ended the process
    eventsLeft,     \* file events still to come
    sinceEvent,     \* history: time since the last file event, saturated
    sinceCompletion,\* history: time since batchReloadConfigs last returned, saturated
    lastBranch,     \* history: the branch the last triggerBatchReload took
    \* the burst histories are kept for bursts that begin with the coordinator idle
    burstClean,     \* history: the current burst began with the coordinator idle
    burstInCooldown,\* history: ... and less than ReloadCooldown after a reload
    burstNames,     \* history: names of the events of the current burst
    burstEvents,    \* history: number of events of the current burst
    burstReloads,   \* history: batch reloads begun since the burst began
    burstLoads,     \* history: per name, loads since the burst began
    burstNotified   \* history: per observer, OnConfigLoadComplete calls since then

hotVars == <<pendingReloads, timers, hrsTimer, callbacks, lastReloadAge,
             isReloading, reloads, fileState, crashed, eventsLeft, sinceEvent,
             sinceCompletion, lastBranch, burstClean, burstInCooldown,
             burstNames, burstEvents, burstReloads, burstLoads, burstNotified>>

histVars == <<burstClean, burstInCooldown, burstNames, burstEvents, burstReloads, burstLoads,
              burstNotified>>

(***************************************************************************)
(* State of one manager executing LoadAllConfigs and batchReloadConfigs,   *)
(* and of the business managers registered with it.  A slice is the id of  *)
(* its backing array: array 0 backs successConfigs, array o the configsCopy *)
(* made for observer o.                                                    *)
(***************************************************************************)
VARIABLES
    op,            \* the call executing or last executed
    opPc,          \* its position
    opResult,      \* what LoadAllConfigs returned
    opWalkFails,   \* input: filepath.Walk meets an error during this call
    dirFiles,      \* the file of each config name in cm.configDir
    opTodo,        \* names the current loop has still to visit
    opLoaded,      \* history: names whose loader returned nil in this call
    mgrConfigs,    \* the keys of cm.configs
    arrays,        \* contents of the backing arrays
    opCalls,       \* per observer, the slices OnConfigLoadComplete got in this call
    opDelivered,   \* history: per observer, their contents when it got them
    mutators,      \* observers that have written to the list they were given
    notifyNext,    \* next business manager of the notification loop
    totalComplete, \* history: per observer, OnConfigLoadComplete calls so far
    firstDone,     \* history: per observer, OnFirstAllConfigDone calls so far
    changedOps,    \* history: returned calls that loaded at least one name
    opsLeft        \* calls still to come

loadVars == <<op, opPc, opResult, opWalkFails, dirFiles, opTodo, opLoaded,
              mgrConfigs, arrays, opCalls, opDelivered, mutators, notifyNext,
              totalComplete, firstDone, changedOps, opsLeft>>

(***************************************************************************)
(* One source record of a JSON or Excel file going through the load pass   *)
(* of loadJsonConfigThreadSafe / loadExcelConfigThreadSafe.                *)
(***************************************************************************)
VARIABLES
    recFormat,      \* input: "json" or "excel"
    recFields,      \* input: the value of each identifier key of the record
    recRegistered,  \* input: a struct type is registered for the config name
    recCheckFails,  \* input: the Check() of the converted record returns an error
    recPc,          \* position of the load pass
    recKey,         \* id computed for the record; "" if none
    recInMap,       \* what configMap[id] holds for the record
    recInList,      \* what slice[i] holds for the record
    afterLoadCalls, \* history: AfterLoad calls made for the record in this pass
    recResult       \* what the loader returned

recVars == <<recFormat, recFields, recRegistered, recCheckFails, recPc, recKey,
             recInMap, recInList, afterLoadCalls, recResult>>

(***************************************************************************)
(* One record of a config file loaded again and again from the unchanged   *)
(* file by loadJsonConfig / loadTsvConfig.                                 *)
(***************************************************************************)
VARIABLES
    rlFormat,       \* input: "json" or "tsv"
    rlFields,       \* input: the fields of the record, as in recFields
    rlKeys,         \* per load pass so far, the id-index key of the record
    rlLists         \* per load pass so far, the list stored for the config

rlVars == <<rlFormat, rlFields, rlKeys, rlLists>>

(***************************************************************************)
(* Goroutines calling the manager: LoadAllConfigs, Reload,                 *)
(* RegisterReloadFunc, the generic readers, and the timer goroutine        *)
(* running batchReloadConfigs; cm.mutex and cm.reloadFuncs.                *)
(***************************************************************************)
VARIABLES
    tk,             \* per goroutine: the call it executes and its position
    cmMutex,        \* the goroutine holding cm.mutex for writing; 0 if none
    reloadFuncs,    \* len(cm.reloadFuncs)
    funcCalls,      \* history: per reload function, its invocations
    owed,           \* history: functions not invoked since a hot update completed
    cached,         \* the config names present in globalIdMaps
    callsLeft       \* calls still to be made

lockVars == <<tk, cmMutex, reloadFuncs, funcCalls, owed, cached, callsLeft>>

(***************************************************************************)
(* Goroutines calling StartWatching on one manager, the fsnotify watchers  *)
(* they create and the listener goroutines they start.                     *)
(***************************************************************************)
VARIABLES
    sw,             \* per goroutine: position in StartWatching, its watcher
    cmWatcher,      \* cm.watcher: a watcher, or 0 for nil
    watchers,       \* per watcher: "none", "open" or "closed"
    listeners,      \* per watcher: its listener is "none", "running" or "ended"
    swCallsLeft     \* calls still to be made

watchVars == <<sw, cmWatcher, watchers, listeners, swCallsLeft>>

(***************************************************************************)
(* The files of the config directory as LoadAllConfigs and the listener    *)
(* of StartWatching see them.  A base name is the sequence of its          *)
(* characters.                                                             *)
(***************************************************************************)
VARIABLES
    scanDir,        \* input: per base name, "absent", "ok" or "bad" (malformed)
    scanPc,         \* position of LoadAllConfigs
    scanTodo,       \* files the walk has still to visit
    cfgNames,       \* the keys of cm.configs
    scanPending,    \* hrs.pendingReloads
    contributors    \* history: files that gave a name to cm.configs or the pending set

scanVars == <<scanDir, scanPc, scanTodo, cfgNames, scanPending, contributors>>

(***************************************************************************)
(* The manager that called StartWatching, next to the global instance.     *)
(***************************************************************************)
VARIABLES
    watching,       \* input: the manager that called StartWatching
    stale           \* per name: its file was written since that manager stored it

wrVars == <<watching, stale>>

(***************************************************************************)
(* A Config233 facade with its ConfigDataRepository, for one registered    *)
(* config class whose rows hold one numeric column.                        *)
(***************************************************************************)
VARIABLES
    facKind,        \* input: the kind of the struct field, "int" or "uint"
    cells,          \* the cells of the column in the file last read
    repoList,       \* r.typeToDataList[typ]: the field value of every object
    repoMu,         \* r.mu is held for writing
    facPc,          \* where the goroutine that loads is
    listener,       \* what the registered change listener does, "none" if none
    hotRegistered,  \* RegisterForHotUpdate(obj) was called
    injected,       \* the field of obj tagged config233:"inject"
    loadsLeft       \* loads still to come

facVars == <<facKind, cells, repoList, repoMu, facPc, listener, hotRegistered,
             injected, loadsLeft>>

(***************************************************************************)
(* Two ConfigManager233 instances and the package-level store they share.  *)
(***************************************************************************)
VARIABLES
    held,           \* per manager and name: the pass in its cm.configMaps, 0 if none
    shared,         \* per name: the manager and pass of the entry in globalIdMaps
    insPass,        \* number of the next load pass
    lastWatcher,    \* history: the manager whose watcher began the last hot reload
    lastReloaded    \* history: the manager that hot reload was run on

insVars == <<held, shared, insPass, lastWatcher, lastReloaded>>

\* the state of the parts that most specifications leave alone
auxVars == <<rlVars, lockVars, watchVars, scanVars, wrVars, facVars, insVars>>

vars == <<storeVars, hotVars, loadVars, recVars, auxVars>>

(***************************************************************************)
(* Data.  An inner object (an id map or a list of one config name) is      *)
(* [obj, recs]: obj = <<pass, copy>> is its identity (copy 0 is the object *)
(* the load task built, copy c > 0 the c-th copy made of it), recs its     *)
(* records, each tagged with the name and pass that converted it.          *)
(***************************************************************************)
NilEntry == [obj |-> <<0, 0>>, recs |-> <<>>]

EmptyMap == [n \in Names |-> NilEntry]

Has(m, n) == m[n] # NilEntry

\* variant: the first row is taken over from the previously stored list
ConvertRecordsPatched(n, k) ==
    [i \in RecIds |-> IF i = 1 /\ configs[n].recs # <<>>
                      THEN configs[n].recs[1]
                      ELSE [name |-> n, pass |-> k]]

\* the records one load pass builds from the rows of the file
ConvertRecords(n, k) == [i \in RecIds |-> [name |-> n, pass |-> k]]

\* the id map / the slice a load task hands to setConfigCache
LoadedEntry(n, k) == [obj |-> <<k, 0>>, recs |-> ConvertRecords(n, k)]

\* a fresh container holding the elements of e
CopyOf(e, c) == [obj |-> <<e.obj[1], c>>, recs |-> e.recs]

\* variant: a deep copy, every other entry is duplicated as well
CopyWithDeep(m, n, e) ==
    [x \in Names |-> IF x = n THEN e
                     ELSE IF m[x].recs = <<>> THEN m[x]
                     ELSE [m[x] EXCEPT !.obj = <<@[1], @[2] + 1>>]]

\* copy-on-write of a top-level map: every key copied, one key replaced
CopyWith(m, n, e) == [m EXCEPT ![n] = e]

\* variant: a plain Store, the expected value is not compared
CompareAndSwapBlind(global, old) == TRUE

\* atomic.Value.CompareAndSwap(old, new) succeeds iff the value is still old
CompareAndSwap(global, old) == global = old

CurIdMaps == idMapsHeap[globalIdMaps]
CurSlices == slicesHeap[globalSlices]

IdleLoader == [pc |-> "idle", name |-> "A", pass |-> 0, cur |-> 0, new |-> EmptyMap]
IdleBuilder == [pc |-> "idle", name |-> "A", idMap |-> NilEntry, cur |-> 0, new |-> EmptyMap]
IdleRebuilder == [pc |-> "idle", copy |-> 0, newIdMaps |-> EmptyMap, newSlices |-> EmptyMap]
IdleReader == [pc |-> "idle", op |-> "none", name |-> "A", id |-> 1, ptr |-> 0, result |-> <<>>]

InitStore ==
    /\ configs = EmptyMap
    /\ configMaps = EmptyMap
    /\ idMapsHeap = <<EmptyMap>>
    /\ slicesHeap = <<EmptyMap>>
    /\ globalIdMaps = 1
    /\ globalSlices = 1
    /\ loader = [l \in Loaders |-> IdleLoader]
    /\ builder = IdleBuilder
    /\ rebuilder = IdleRebuilder
    /\ reader = IdleReader
    /\ nextPass = 1
    /\ nextCopy = 1
    /\ overlap = [n \in Names |-> FALSE]
    /\ casFailed = FALSE

(***************************************************************************)
(* A load task: loadJsonConfigThreadSafe, then setConfigCache.             *)
(***************************************************************************)
\* read the file and convert its rows (no lock held)
LoadBegin(l, n) ==
    /\ loader[l].pc = "idle"
    /\ nextPass <= MaxPass
    /\ loader' = [loader EXCEPT ![l] = [IdleLoader EXCEPT !.pc = "store",
                                          !.name = n, !.pass = nextPass]]
    /\ nextPass' = nextPass + 1
    /\ overlap' = [overlap EXCEPT ![n] =
                     @ \/ \E o \in Loaders \ {l} :
                            loader[o].pc # "idle" /\ loader[o].name = n]
    /\ UNCHANGED <<configs, configMaps, idMapsHeap, slicesHeap, globalIdMaps,
                   globalSlices, builder, rebuilder, reader, nextCopy, casFailed>>

\* cm.mutex.Lock(); cm.configs[n] = ...; cm.configMaps[n] = ...; Unlock()
LoadStoreManaged(l) ==
    /\ loader[l].pc = "store"
    /\ configs' = [configs EXCEPT ![loader[l].name] =
                      LoadedEntry(loader[l].name, loader[l].pass)]
    /\ configMaps' = [configMaps EXCEPT ![loader[l].name] =
                      LoadedEntry(loader[l].name, loader[l].pass)]
    /\ loader' = [loader EXCEPT ![l].pc = "idLoad"]
    /\ UNCHANGED <<idMapsHeap, slicesHeap, globalIdMaps, globalSlices, builder,
                   rebuilder, reader, nextPass, nextCopy, overlap, casFailed>>

\* setConfigCache, loop 1: Load the pointer and build the copy
SetCacheIdLoad(l) ==
    /\ loader[l].pc = "idLoad"
    /\ loader' = [loader EXCEPT ![l].pc = "idCAS",
                                ![l].cur = globalIdMaps,
                                ![l].new = CopyWith(CurIdMaps, loader[l].name,
                                     LoadedEntry(loader[l].name, loader[l].pass))]
    /\ UNCHANGED <<configs, configMaps, idMapsHeap, slicesHeap, globalIdMaps,
                   globalSlices, builder, rebuilder, reader, nextPass, nextCopy,
                   overlap, casFailed>>

\* setConfigCache, loop 1: CompareAndSwap, retry on failure
SetCacheIdCAS(l) ==
    /\ loader[l].pc = "idCAS"
    /\ IF CompareAndSwap(globalIdMaps, loader[l].cur)
       THEN /\ idMapsHeap' = Append(idMapsHeap, loader[l].new)
            /\ globalIdMaps' = Len(idMapsHeap) + 1
            /\ loader' = [loader EXCEPT ![l].pc = "sliceLoad"]
            /\ UNCHANGED casFailed
       ELSE /\ loader' = [loader EXCEPT ![l].pc = "idLoad"]
            /\ casFailed' = TRUE
            /\ UNCHANGED <<idMapsHeap, globalIdMaps>>
    /\ UNCHANGED <<configs, configMaps, slicesHeap, globalSlices, builder,
                   rebuilder, reader, nextPass, nextCopy, overlap>>

\* setConfigCache, loop 2: Load the pointer and build the copy
SetCacheSliceLoad(l) ==
    /\ loader[l].pc = "sliceLoad"
    /\ loader' = [loader EXCEPT ![l].pc = "sliceCAS",
                                ![l].cur = globalSlices,
                                ![l].new = CopyWith(CurSlices, loader[l].name,
                                     LoadedEntry(loader[l].name, loader[l].pass))]
    /\ UNCHANGED <<configs, configMaps, idMapsHeap, slicesHeap, globalIdMaps,
                   globalSlices, builder, rebuilder, reader, nextPass, nextCopy,
                   overlap, casFailed>>

\* setConfigCache, loop 2: CompareAndSwap, retry on failure; then return
SetCacheSliceCAS(l) ==
    /\ loader[l].pc = "sliceCAS"
    /\ IF CompareAndSwap(globalSlices, loader[l].cur)
       THEN /\ slicesHeap' = Append(slicesHeap, loader[l].new)
            /\ globalSlices' = Len(slicesHeap) + 1
            /\ loader' = [loader EXCEPT ![l] = IdleLoader]
            /\ UNCHANGED casFailed
       ELSE /\ loader' = [loader EXCEPT ![l].pc = "sliceLoad"]
            /\ casFailed' = TRUE
            /\ UNCHANGED <<slicesHeap, globalSlices>>
    /\ UNCHANGED <<configs, configMaps, idMapsHeap, globalIdMaps, builder,
                   rebuilder, reader, nextPass, nextCopy, overlap>>

LoaderStep ==
    \E l \in Loaders :
        \/ \E n \in Names : LoadBegin(l, n)
        \/ LoadStoreManaged(l)
        \/ SetCacheIdLoad(l)
        \/ SetCacheIdCAS(l)
        \/ SetCacheSliceLoad(l)
        \/ SetCacheSliceCAS(l)

(***************************************************************************)
(* BuildIdIndex(configName), called on the global instance.                *)
(***************************************************************************)
\* Instance.GetAllConfigs(n) under RLock and the copy into a fresh idMap;
\* for a name that is not loaded the call returns at once
BuildIdIndexRead(n) ==
    /\ builder.pc = "idle"
    /\ nextCopy <= MaxCopies
    /\ Has(configMaps, n)
    /\ builder' = [IdleBuilder EXCEPT !.pc = "load", !.name = n,
                                      !.idMap = CopyOf(configMaps[n], nextCopy)]
    /\ nextCopy' = nextCopy + 1
    /\ UNCHANGED <<configs, configMaps, idMapsHeap, slicesHeap, globalIdMaps,
                   globalSlices, loader, rebuilder, reader, nextPass, overlap,
                   casFailed>>

BuildIdIndexLoad ==
    /\ builder.pc = "load"
    /\ builder' = [builder EXCEPT !.pc = "cas", !.cur = globalIdMaps,
                       !.new = CopyWith(CurIdMaps, builder.name, builder.idMap)]
    /\ UNCHANGED <<configs, configMaps, idMapsHeap, slicesHeap, globalIdMaps,
                   globalSlices, loader, rebuilder, reader, nextPass, nextCopy,
                   overlap, casFailed>>

BuildIdIndexCAS ==
    /\ builder.pc = "cas"
    /\ IF CompareAndSwap(globalIdMaps, builder.cur)
       THEN /\ idMapsHeap' = Append(idMapsHeap, builder.new)
            /\ globalIdMaps' = Len(idMapsHeap) + 1
            /\ builder' = IdleBuilder
       ELSE /\ builder' = [builder EXCEPT !.pc = "load"]
            /\ UNCHANGED <<idMapsHeap, globalIdMaps>>
    /\ UNCHANGED <<configs, configMaps, slicesHeap, globalSlices, loader,
                   rebuilder, reader, nextPass, nextCopy, overlap, casFailed>>

BuilderStep ==
    \/ \E n \in Names : BuildIdIndexRead(n)
    \/ BuildIdIndexLoad
    \/ BuildIdIndexCAS

(***************************************************************************)
(* BuildAllIdIndexes -> Instance.buildGlobalCaches(), which takes no lock. *)
(***************************************************************************)
\* the loop over cm.configMaps: the id maps themselves are put in newIdMaps
RebuildCollectIdMaps ==
    /\ rebuilder.pc = "idle"
    /\ nextCopy <= MaxCopies
    /\ rebuilder' = [IdleRebuilder EXCEPT !.pc = "slices", !.copy = nextCopy,
                                          !.newIdMaps = configMaps]
    /\ nextCopy' = nextCopy + 1
    /\ UNCHANGED <<configs, configMaps, idMapsHeap, slicesHeap, globalIdMaps,
                   globalSlices, loader, builder, reader, nextPass, overlap,
                   casFailed>>

\* the loop over cm.configs: each []map[string]interface{} is copied into a
\* fresh []interface{}
RebuildCollectSlices ==
    /\ rebuilder.pc = "slices"
    /\ rebuilder' = [rebuilder EXCEPT !.pc = "storeIds",
            !.newSlices = [n \in Names |-> IF Has(configs, n)
                                           THEN CopyOf(configs[n], rebuilder.copy)
                                           ELSE NilEntry]]
    /\ UNCHANGED <<configs, configMaps, idMapsHeap, slicesHeap, globalIdMaps,
                   globalSlices, loader, builder, reader, nextPass, nextCopy,
                   overlap, casFailed>>

\* globalIdMaps.Store(&newIdMaps)
RebuildStoreIdMaps ==
    /\ rebuilder.pc = "storeIds"
    /\ idMapsHeap' = Append(idMapsHeap, rebuilder.newIdMaps)
    /\ globalIdMaps' = Len(idMapsHeap) + 1
    /\ rebuilder' = [rebuilder EXCEPT !.pc = "storeSlices"]
    /\ UNCHANGED <<configs, configMaps, slicesHeap, globalSlices, loader,
                   builder, reader, nextPass, nextCopy, overlap, casFailed>>

\* globalSlices.Store(&newSlices)
RebuildStoreSlices ==
    /\ rebuilder.pc = "storeSlices"
    /\ slicesHeap' = Append(slicesHeap, rebuilder.newSlices)
    /\ globalSlices' = Len(slicesHeap) + 1
    /\ rebuilder' = IdleRebuilder
    /\ UNCHANGED <<configs, configMaps, idMapsHeap, globalIdMaps, loader,
                   builder, reader, nextPass, nextCopy, overlap, casFailed>>

RebuilderStep ==
    \/ RebuildCollectIdMaps
    \/ RebuildCollectSlices
    \/ RebuildStoreIdMaps
    \/ RebuildStoreSlices

(***************************************************************************)
(* The readers GetAllConfigList[T]() and GetConfigByIdWithName[T](n, id).  *)
(***************************************************************************)
\* the list of the generation a reader loaded
ListOf(ptr, n) == slicesHeap[ptr][n]

\* globalSlices.Load()
ListRead(n) ==
    /\ reader.pc \in {"idle", "done"}
    /\ reader' = [IdleReader EXCEPT !.pc = "lookup", !.op = "list", !.name = n,
                                    !.ptr = globalSlices]
    /\ UNCHANGED <<configs, configMaps, idMapsHeap, slicesHeap, globalIdMaps,
                   globalSlices, loader, builder, rebuilder, nextPass, nextCopy,
                   overlap, casFailed>>

\* slices[configName] and the loop that fills the result
ListLookup ==
    /\ reader.pc = "lookup"
    /\ reader.op = "list"
    /\ reader' = [reader EXCEPT !.pc = "done",
                     !.result = IF Has(slicesHeap[reader.ptr], reader.name)
                                THEN [i \in RecIds |-> ListOf(reader.ptr, reader.name).recs[i]]
                                ELSE <<>>]
    /\ UNCHANGED <<configs, configMaps, idMapsHeap, slicesHeap, globalIdMaps,
                   globalSlices, loader, builder, rebuilder, nextPass, nextCopy,
                   overlap, casFailed>>

\* globalIdMaps.Load()
IdRead(n, id) ==
    /\ reader.pc \in {"idle", "done"}
    /\ reader' = [IdleReader EXCEPT !.pc = "lookup", !.op = "id", !.name = n,
                                    !.id = id, !.ptr = globalIdMaps]
    /\ UNCHANGED <<configs, configMaps, idMapsHeap, slicesHeap, globalIdMaps,
                   globalSlices, loader, builder, rebuilder, nextPass, nextCopy,
                   overlap, casFailed>>

\* idMaps[configName][id]; on a cache miss Instance.GetConfig under RLock
IdLookup ==
    /\ reader.pc = "lookup"
    /\ reader.op = "id"
    /\ reader' = [reader EXCEPT !.pc = "done",
                     !.result = IF Has(idMapsHeap[reader.ptr], reader.name)
                                THEN <<idMapsHeap[reader.ptr][reader.name].recs[reader.id]>>
                                ELSE IF Has(configMaps, reader.name)
                                THEN <<configMaps[reader.name].recs[reader.id]>>
                                ELSE <<>>]
    /\ UNCHANGED <<configs, configMaps, idMapsHeap, slicesHeap, globalIdMaps,
                   globalSlices, loader, builder, rebuilder, nextPass, nextCopy,
                   overlap, casFailed>>

ReaderStep ==
    \/ \E n \in Names : ListRead(n)
    \/ ListLookup
    \/ \E n \in Names, id \in RecIds : IdRead(n, id)
    \/ IdLookup

(***************************************************************************)
(* The hot-reload coordinator.                                             *)
(***************************************************************************)
Delays == 0..ReloadBatchDelay

Armed == timers[0] + timers[1] + timers[2] + timers[3] + timers[4] + timers[5]

\* variant: no new timer is made while one is still armed
ArmIfNoneArmed(ts, d) == IF Armed > 0 THEN ts ELSE [ts EXCEPT ![d] = @ + 1]

\* time.AfterFunc(d, ...)
Arm(ts, d) == [ts EXCEPT ![d] = @ + 1]

\* hrs.timer.Stop(): removes the timer if it has not fired yet
Stop(ts, ref) == IF ref = NoTimer THEN ts ELSE [ts EXCEPT ![ref] = @ - 1]

Saturate(t, max) == IF t < max THEN t + 1 ELSE max

\* variant: the cooldown is never in effect
InCooldownNever == FALSE

\* time.Since(hrs.lastReloadTime) < ReloadCooldown
InCooldown == lastReloadAge < ReloadCooldown

\* variant: the timer is re-armed for the whole cooldown
RemainingCooldownFull == ReloadCooldown

\* ReloadCooldown - timeSinceLastReload
RemainingCooldown == ReloadCooldown - lastReloadAge

\* variant: the in-progress flag is not consulted
ReloadInProgressIgnored == FALSE

\* if hrs.isReloading
ReloadInProgress == isReloading

\* variant: one callback per reloaded name, as OnConfigLoadComplete(name) did
NotifyCallsPerName(success) == Cardinality(success)

\* calls of OnConfigLoadComplete each business manager gets from one batch
NotifyCalls(success) == IF success # {} THEN 1 ELSE 0

Bump(c) == IF c < 2 THEN c + 1 ELSE 2

Idle ==
    /\ Armed = 0
    /\ callbacks = 0
    /\ reloads = <<>>
    /\ pendingReloads = {}
    /\ ~isReloading

InitHot ==
    /\ pendingReloads = {}
    /\ timers = [d \in Delays |-> 0]
    /\ hrsTimer = NoTimer
    /\ callbacks = 0
    /\ lastReloadAge = ReloadCooldown
    /\ isReloading = FALSE
    /\ reloads = <<>>
    /\ fileState = [n \in Names |-> "ok"]
    /\ crashed = FALSE
    /\ eventsLeft = MaxEvents
    /\ sinceEvent = ReloadBatchDelay
    /\ sinceCompletion = NoReloadYet
    /\ lastBranch = "none"
    /\ burstClean = FALSE
    /\ burstInCooldown = FALSE
    /\ burstNames = {}
    /\ burstEvents = 0
    /\ burstReloads = 0
    /\ burstLoads = [n \in Names |-> 0]
    /\ burstNotified = [o \in Observers |-> 0]

\* The listener goroutine of StartWatching takes a Write/Create event for the
\* file of loaded config n (now holding content st) and calls
\* addPendingReload(n).
FileEvent(n, st) ==
    /\ ~crashed
    /\ eventsLeft > 0
    /\ hrsTimer # NoTimer \/ Armed + callbacks < MaxOutstanding
    /\ fileState' = [fileState EXCEPT ![n] = st]
    /\ pendingReloads' = pendingReloads \cup {n}
    /\ timers' = Arm(Stop(timers, hrsTimer), ReloadBatchDelay)
    /\ hrsTimer' = ReloadBatchDelay
    /\ eventsLeft' = eventsLeft - 1
    /\ sinceEvent' = 0
    /\ IF sinceEvent >= ReloadBatchDelay
       THEN /\ burstClean' = Idle
            /\ burstInCooldown' = (Idle /\ lastReloadAge < ReloadCooldown)
            /\ burstNames' = IF Idle THEN {n} ELSE {}
            /\ burstEvents' = IF Idle THEN 1 ELSE 0
            /\ burstReloads' = 0
            /\ burstLoads' = [m \in Names |-> 0]
            /\ burstNotified' = [o \in Observers |-> 0]
       ELSE /\ burstNames' = IF burstClean THEN burstNames \cup {n} ELSE {}
            /\ burstEvents' = IF burstClean THEN burstEvents + 1 ELSE 0
            /\ UNCHANGED <<burstClean, burstInCooldown, burstReloads, burstLoads,
                           burstNotified>>
    /\ UNCHANGED <<callbacks, lastReloadAge, isReloading, reloads, crashed,
                   sinceCompletion, lastBranch>>

\* The file of n is deleted or renamed away; Remove and Rename events are
\* not handled by the listener.
FileRemove(n) ==
    /\ ~crashed
    /\ fileState[n] # "missing"
    /\ fileState' = [fileState EXCEPT ![n] = "missing"]
    /\ UNCHANGED <<pendingReloads, timers, hrsTimer, callbacks, lastReloadAge,
                   isReloading, reloads, crashed, eventsLeft, sinceEvent,
                   sinceCompletion, lastBranch, histVars>>

\* 100 ms pass; the runtime fires a timer when its delay has run out
Tick ==
    /\ ~crashed
    /\ timers[0] = 0
    /\ timers' = [d \in Delays |-> IF d < ReloadBatchDelay THEN timers[d + 1] ELSE 0]
    /\ hrsTimer' = IF hrsTimer = NoTimer THEN NoTimer ELSE hrsTimer - 1
    /\ lastReloadAge' = Saturate(lastReloadAge, ReloadCooldown)
    /\ sinceEvent' = Saturate(sinceEvent, ReloadBatchDelay)
    /\ sinceCompletion' = IF sinceCompletion = NoReloadYet THEN NoReloadYet
                          ELSE Saturate(sinceCompletion, ReloadCooldown)
    /\ UNCHANGED <<pendingReloads, callbacks, isReloading, reloads, fileState,
                   crashed, eventsLeft, lastBranch, histVars>>

\* a timer whose delay has run out starts its callback in a new goroutine
TimerFire ==
    /\ ~crashed
    /\ timers[0] > 0
    /\ timers' = [timers EXCEPT ![0] = @ - 1]
    /\ callbacks' = callbacks + 1
    /\ hrsTimer' \in IF hrsTimer # 0 THEN {hrsTimer}
                     ELSE IF timers[0] = 1 THEN {NoTimer}
                     ELSE {NoTimer, 0}
    /\ UNCHANGED <<pendingReloads, lastReloadAge, isReloading, reloads,
                   fileState, crashed, eventsLeft, sinceEvent, sinceCompletion,
                   lastBranch, histVars>>

\* triggerBatchReload up to its first Unlock: cooldown, in progress, or drain
TriggerBatchReload ==
    /\ ~crashed
    /\ callbacks > 0
    /\ callbacks' = callbacks - 1
    /\ IF InCooldown
       THEN /\ timers' = Arm(timers, RemainingCooldown)
            /\ hrsTimer' = RemainingCooldown
            /\ lastBranch' = "cooldown"
            /\ UNCHANGED <<pendingReloads, isReloading, reloads, burstReloads>>
       ELSE IF ReloadInProgress
       THEN /\ timers' = Arm(timers, RetryDelay)
            /\ hrsTimer' = RetryDelay
            /\ lastBranch' = "retry"
            /\ UNCHANGED <<pendingReloads, isReloading, reloads, burstReloads>>
       ELSE /\ reloads' = Append(reloads,
                              [batch |-> pendingReloads,
                               pc |-> IF pendingReloads = {} THEN "finish"
                                                             ELSE "reload"])
            /\ pendingReloads' = {}
            /\ isReloading' = TRUE
            /\ lastBranch' = "drain"
            /\ burstReloads' = IF burstClean /\ pendingReloads # {}
                               THEN Bump(burstReloads) ELSE burstReloads
            /\ UNCHANGED <<timers, hrsTimer>>
    /\ UNCHANGED <<lastReloadAge, fileState, crashed, eventsLeft, sinceEvent,
                   sinceCompletion, burstClean, burstInCooldown, burstNames,
                   burstEvents, burstLoads, burstNotified>>

\* variant: the walk selects every file of the directory
FoundFilesAll(batch) == {n \in Names : fileState[n] # "missing"}

\* the names of the batch for which the directory walk selects a loadable file
FoundFiles(batch) == {n \in batch : fileState[n] # "missing"}

\* GetInstance().batchReloadConfigs(configsToReload): the walk, the serial
\* loads and the batched notification.  The format handlers panic on an
\* unreadable or malformed file and nothing recovers: the process ends,
\* after the loads that came earlier in the (unordered) loop.
BatchReloadConfigs(i) ==
    /\ ~crashed
    /\ i \in DOMAIN reloads
    /\ reloads[i].pc = "reload"
    /\ LET found == FoundFiles(reloads[i].batch)
           good == {n \in found : fileState[n] = "ok"}
       IN IF good # found
          THEN /\ \E loaded \in SUBSET good :
                    burstLoads' = [n \in Names |-> IF burstClean /\ n \in loaded
                                                   THEN Bump(burstLoads[n])
                                                   ELSE burstLoads[n]]
               /\ reloads' = [reloads EXCEPT ![i].pc = "panicked"]
               /\ crashed' = TRUE
               /\ UNCHANGED <<burstNotified, sinceCompletion>>
          ELSE /\ burstLoads' = [n \in Names |-> IF burstClean /\ n \in found
                                                  THEN Bump(burstLoads[n])
                                                  ELSE burstLoads[n]]
               /\ burstNotified' = [o \in Observers |->
                     IF ~burstClean THEN burstNotified[o]
                     ELSE IF burstNotified[o] + NotifyCalls(found) > 2 THEN 2
                     ELSE burstNotified[o] + NotifyCalls(found)]
               /\ reloads' = [reloads EXCEPT ![i].pc = "finish"]
               /\ sinceCompletion' = 0
               /\ UNCHANGED crashed
    /\ UNCHANGED <<pendingReloads, timers, hrsTimer, callbacks, lastReloadAge,
                   isReloading, fileState, eventsLeft, sinceEvent, lastBranch,
                   burstClean, burstInCooldown, burstNames, burstEvents,
                   burstReloads>>

\* triggerBatchReload, last critical section: lastReloadTime = now, flag off
FinishReload(i) ==
    /\ ~crashed
    /\ i \in DOMAIN reloads
    /\ reloads[i].pc = "finish"
    /\ lastReloadAge' = 0
    /\ isReloading' = FALSE
    /\ reloads' = [j \in 1..(Len(reloads) - 1) |->
                      IF j < i THEN reloads[j] ELSE reloads[j + 1]]
    /\ UNCHANGED <<pendingReloads, timers, hrsTimer, callbacks, fileState,
                   crashed, eventsLeft, sinceEvent, sinceCompletion, lastBranch,
                   histVars>>

BatchReloadStep == \E i \in 1..2 : BatchReloadConfigs(i)

FinishReloadStep == \E i \in 1..2 : FinishReload(i)

(***************************************************************************)
(* LoadAllConfigs (manager.go) and batchReloadConfigs (hot_reload.go) of   *)
(* one manager, with the notifications they send.                          *)
(***************************************************************************)
ArrayIds == 0..2

NoLists == [o \in Observers |-> <<>>]

NoCounts == [o \in Observers |-> 0]

LastObserver == 2

\* variant: the notification loop walks cm.businessManagers backwards
ObserverAtReversed(i) == LastObserver + 1 - i

\* cm.businessManagers[i - 1]: RegisterBusinessManager appends, so the i-th
\* element is the i-th business manager registered, observer i
ObserverAt(i) == i

\* variant: every manager is handed successConfigs itself
CopyTargetShared(o) == 0

\* configsCopy := make([]string, len(successConfigs)): a new array per manager
CopyTarget(o) == o

\* variant: the notification loop does not wait for the walk
WalkDoneAnyTime == TRUE

\* filepath.Walk has returned: every file has been visited
WalkDone == opTodo = {}

OpOver == opPc \in {"returned", "panicked"}

MayBegin == opPc \in {"idle", "returned"} /\ opsLeft > 0

\* what every call resets
BeginOp ==
    /\ opResult' = "none"
    /\ opLoaded' = {}
    /\ arrays' = [a \in ArrayIds |-> <<>>]
    /\ opCalls' = NoLists
    /\ opDelivered' = NoLists
    /\ mutators' = {}
    /\ notifyNext' = 1
    /\ opsLeft' = opsLeft - 1

\* LoadAllConfigs is called: it takes cm.mutex and starts the walk
LaBegin(fails) ==
    /\ MayBegin
    /\ op' = "LoadAllConfigs"
    /\ opPc' = "walk"
    /\ opWalkFails' = fails
    /\ opTodo' = {n \in Names : dirFiles[n] # "missing"}
    /\ BeginOp
    /\ UNCHANGED <<dirFiles, mgrConfigs, totalComplete, firstDone, changedOps>>

\* the walk visits the file of n and calls its loader, which stores the
\* config in cm.configs; the format handler panics on a malformed file
LaLoad(n) ==
    /\ op = "LoadAllConfigs"
    /\ opPc = "walk"
    /\ n \in opTodo
    /\ IF dirFiles[n] = "bad"
       THEN /\ opPc' = "panicked"
            /\ UNCHANGED <<opTodo, opLoaded, mgrConfigs>>
       ELSE /\ opTodo' = opTodo \ {n}
            /\ opLoaded' = opLoaded \cup {n}
            /\ mgrConfigs' = mgrConfigs \cup {n}
            /\ UNCHANGED opPc
    /\ UNCHANGED <<op, opResult, opWalkFails, dirFiles, arrays, opCalls,
                   opDelivered, mutators, notifyNext, totalComplete, firstDone,
                   changedOps, opsLeft>>

\* the walk function is called with an error and returns it: Walk stops
\* and LoadAllConfigs returns the error without notifying
LaWalkError ==
    /\ op = "LoadAllConfigs"
    /\ opPc = "walk"
    /\ opWalkFails
    /\ opPc' = "returned"
    /\ opResult' = "error"
    /\ changedOps' = IF opLoaded # {} THEN changedOps + 1 ELSE changedOps
    /\ UNCHANGED <<op, opWalkFails, dirFiles, opTodo, opLoaded, mgrConfigs,
                   arrays, opCalls, opDelivered, mutators, notifyNext,
                   totalComplete, firstDone, opsLeft>>

\* err == nil: the loop over cm.configs begins
LaWalkDone ==
    /\ op = "LoadAllConfigs"
    /\ opPc = "walk"
    /\ WalkDone
    /\ ~opWalkFails
    /\ opPc' = "notify"
    /\ opTodo' = mgrConfigs
    /\ UNCHANGED <<op, opResult, opWalkFails, dirFiles, opLoaded, mgrConfigs,
                   arrays, opCalls, opDelivered, mutators, notifyNext,
                   totalComplete, firstDone, changedOps, opsLeft>>

\* for configName := range cm.configs: every business manager gets
\* OnConfigLoadComplete(configName)
LaNotify(n) ==
    /\ op = "LoadAllConfigs"
    /\ opPc = "notify"
    /\ n \in opTodo
    /\ IF notifyNext = 1 THEN TRUE
       ELSE LET first == opDelivered[ObserverAt(1)]
            IN first[Len(first)] = <<n>>
    /\ LET o == ObserverAt(notifyNext)
       IN /\ opCalls' = [opCalls EXCEPT ![o] = Append(@, NoArray)]
          /\ opDelivered' = [opDelivered EXCEPT ![o] = Append(@, <<n>>)]
          /\ totalComplete' = [totalComplete EXCEPT ![o] = @ + 1]
    /\ notifyNext' = IF notifyNext = LastObserver THEN 1 ELSE notifyNext + 1
    /\ opTodo' = IF notifyNext = LastObserver THEN opTodo \ {n} ELSE opTodo
    /\ UNCHANGED <<op, opPc, opResult, opWalkFails, dirFiles, opLoaded,
                   mgrConfigs, arrays, mutators, firstDone, changedOps, opsLeft>>

\* return err, with err == nil
LaReturn ==
    /\ op = "LoadAllConfigs"
    /\ opPc = "notify"
    /\ opTodo = {}
    /\ opPc' = "returned"
    /\ opResult' = "ok"
    /\ changedOps' = IF opLoaded # {} THEN changedOps + 1 ELSE changedOps
    /\ UNCHANGED <<op, opWalkFails, dirFiles, opTodo, opLoaded, mgrConfigs,
                   arrays, opCalls, opDelivered, mutators, notifyNext,
                   totalComplete, firstDone, opsLeft>>

\* batchReloadConfigs(configNames): the early return and the directory walk
BrBegin(names) ==
    /\ MayBegin
    /\ op' = "batchReloadConfigs"
    /\ opPc' = IF names = {} THEN "returned" ELSE "load"
    /\ opWalkFails' = FALSE
    /\ opTodo' = {n \in names : dirFiles[n] # "missing"}
    /\ BeginOp
    /\ UNCHANGED <<dirFiles, mgrConfigs, totalComplete, firstDone, changedOps>>

\* for configName, filePath := range configFiles: one serial load
BrLoad(n) ==
    /\ op = "batchReloadConfigs"
    /\ opPc = "load"
    /\ n \in opTodo
    /\ IF dirFiles[n] = "bad"
       THEN /\ opPc' = "panicked"
            /\ UNCHANGED <<opTodo, opLoaded, mgrConfigs, arrays>>
       ELSE /\ opTodo' = opTodo \ {n}
            /\ opLoaded' = opLoaded \cup {n}
            /\ mgrConfigs' = mgrConfigs \cup {n}
            /\ arrays' = [arrays EXCEPT ![0] = Append(@, n)]
            /\ UNCHANGED opPc
    /\ UNCHANGED <<op, opResult, opWalkFails, dirFiles, opCalls, opDelivered,
                   mutators, notifyNext, totalComplete, firstDone, changedOps,
                   opsLeft>>

\* if len(successConfigs) > 0
BrLoadsDone ==
    /\ op = "batchReloadConfigs"
    /\ opPc = "load"
    /\ opTodo = {}
    /\ opPc' = IF Len(arrays[0]) > 0 THEN "notify" ELSE "returned"
    /\ UNCHANGED <<op, opResult, opWalkFails, dirFiles, opTodo, opLoaded,
                   mgrConfigs, arrays, opCalls, opDelivered, mutators,
                   notifyNext, totalComplete, firstDone, changedOps, opsLeft>>

\* for _, manager := range cm.businessManagers: copy and callback
BrNotify ==
    /\ op = "batchReloadConfigs"
    /\ opPc = "notify"
    /\ LET o == ObserverAt(notifyNext)
           given == [arrays EXCEPT ![CopyTarget(o)] = arrays[0]]
       IN /\ arrays' = given
          /\ opCalls' = [opCalls EXCEPT ![o] = Append(@, CopyTarget(o))]
          /\ opDelivered' = [opDelivered EXCEPT
                                ![o] = Append(@, given[CopyTarget(o)])]
          /\ totalComplete' = [totalComplete EXCEPT ![o] = @ + 1]
          /\ notifyNext' = notifyNext + 1
          /\ opPc' = IF notifyNext = LastObserver THEN "returned" ELSE "notify"
          /\ changedOps' = IF notifyNext = LastObserver THEN changedOps + 1
                                                        ELSE changedOps
    /\ UNCHANGED <<op, opResult, opWalkFails, dirFiles, opTodo, opLoaded,
                   mgrConfigs, mutators, firstDone, opsLeft>>

\* a business manager writes to the list it was given, in its callback or
\* later
ObserverMutate(o) ==
    /\ op = "batchReloadConfigs"
    /\ opPc \in {"notify", "returned"}
    /\ o \notin mutators
    /\ opCalls[o] # <<>>
    /\ arrays' = [arrays EXCEPT ![opCalls[o][1]][1] = "mutated"]
    /\ mutators' = mutators \cup {o}
    /\ UNCHANGED <<op, opPc, opResult, opWalkFails, dirFiles, opTodo, opLoaded,
                   mgrConfigs, opCalls, opDelivered, notifyNext, totalComplete,
                   firstDone, changedOps, opsLeft>>

LoadAllStep ==
    \/ \E fails \in BOOLEAN : LaBegin(fails)
    \/ \E n \in Names : LaLoad(n)
    \/ LaWalkError
    \/ LaWalkDone
    \/ \E n \in Names : LaNotify(n)
    \/ LaReturn

BatchStep ==
    \/ \E names \in SUBSET Names : BrBegin(names)
    \/ \E n \in Names : BrLoad(n)
    \/ BrLoadsDone
    \/ BrNotify

\* a manager on which nothing runs
InitLoad ==
    /\ op = "none"
    /\ opPc = "idle"
    /\ opResult = "none"
    /\ opWalkFails = FALSE
    /\ opTodo = {}
    /\ opLoaded = {}
    /\ arrays = [a \in ArrayIds |-> <<>>]
    /\ opCalls = NoLists
    /\ opDelivered = NoLists
    /\ mutators = {}
    /\ notifyNext = 1
    /\ totalComplete = NoCounts
    /\ firstDone = NoCounts
    /\ changedOps = 0

\* NewConfigManager233: nothing loaded; the directory holds any files
InitNewManager ==
    /\ InitLoad
    /\ mgrConfigs = {}
    /\ dirFiles \in [Names -> {"ok", "bad", "missing"}]
    /\ opsLeft = MaxOps

\* a manager that has loaded every config, whose files were changed since
InitLoadedManager ==
    /\ InitLoad
    /\ mgrConfigs = Names
    /\ dirFiles \in [Names -> {"ok", "bad", "missing"}]
    /\ opsLeft = MaxOps

\* no manager call is made
InitNoLoad ==
    /\ InitLoad
    /\ mgrConfigs = {}
    /\ dirFiles = [n \in Names |-> "ok"]
    /\ opsLeft = 0

(***************************************************************************)
(* The load pass of one record.                                            *)
(***************************************************************************)
IdKeys == {"id", "ID", "Id", "itemId"}

\* a key is absent, or holds the empty string, the string "7" or the number 9
IdValues == {"absent", "empty", "s7", "n9"}

\* the string itself, or fmt.Sprintf("%v", idVal)
FormatValue(v) ==
    IF v = "s7" THEN "7"
    ELSE IF v = "n9" THEN "9"
    ELSE ""

\* loader_json.go: the first key that is present decides, empty or not
ExtractIdJson(f) ==
    IF f["id"] # "absent" THEN FormatValue(f["id"])
    ELSE IF f["ID"] # "absent" THEN FormatValue(f["ID"])
    ELSE IF f["Id"] # "absent" THEN FormatValue(f["Id"])
    ELSE ""

\* dto.go: the first key that is present and not "" decides; itemId is last
ExtractIdExcel(f) ==
    IF f["id"] \notin {"absent", "empty"} THEN FormatValue(f["id"])
    ELSE IF f["ID"] \notin {"absent", "empty"} THEN FormatValue(f["ID"])
    ELSE IF f["Id"] \notin {"absent", "empty"} THEN FormatValue(f["Id"])
    ELSE IF f["itemId"] \notin {"absent", "empty"} THEN FormatValue(f["itemId"])
    ELSE ""

ExtractId(format, f) ==
    IF format = "json" THEN ExtractIdJson(f) ELSE ExtractIdExcel(f)

\* convertMapToRegisteredStruct(fileName, item): an error if no type is
\* registered; otherwise the struct is populated, AfterLoad is called, then
\* Check, whose failure is advisory (the converted struct is returned) or,
\* at worst, makes the conversion return an error
ConvertOutcomes ==
    IF ~recRegistered THEN {"err"}
    ELSE IF recCheckFails THEN {"ok", "err"}
    ELSE {"ok"}

\* AfterLoad calls of one conversion
HookCalls == IF recRegistered THEN 1 ELSE 0

\* variant: a record whose conversion failed is left out
EntryStrict(out) == IF out = "ok" THEN "struct" ELSE "none"

\* if converted, err := ...; err == nil { converted } else { the raw map }
Entry(out) == IF out = "ok" THEN "struct" ELSE "raw"

\* the inputs: any record, registered or not, valid or not
InitRecord ==
    /\ recFormat \in {"json", "excel"}
    /\ recFields \in [IdKeys -> IdValues]
    /\ recRegistered \in BOOLEAN
    /\ recCheckFails \in BOOLEAN
    /\ recCheckFails => recRegistered
    /\ recPc = "input"
    /\ recKey = ""
    /\ recInMap = "none"
    /\ recInList = "none"
    /\ afterLoadCalls = 0
    /\ recResult = "none"

\* no record is loaded
InitNoRecord ==
    /\ recFormat = "json"
    /\ recFields = [k \in IdKeys |-> "absent"]
    /\ recRegistered = FALSE
    /\ recCheckFails = FALSE
    /\ recPc = "stored"
    /\ recKey = ""
    /\ recInMap = "none"
    /\ recInList = "none"
    /\ afterLoadCalls = 0
    /\ recResult = "none"

\* first loop: the id of the record and, if it has one, its configMap entry
IndexRecord ==
    /\ recPc = "input"
    /\ recPc' = "mapped"
    /\ recKey' = ExtractId(recFormat, recFields)
    /\ IF recKey' # ""
       THEN /\ \E out \in ConvertOutcomes : recInMap' = Entry(out)
            /\ afterLoadCalls' = afterLoadCalls + HookCalls
       ELSE UNCHANGED <<recInMap, afterLoadCalls>>
    /\ UNCHANGED <<recFormat, recFields, recRegistered, recCheckFails,
                   recInList, recResult>>

\* second loop: the slice entry of the record, converted again
ListRecord ==
    /\ recPc = "mapped"
    /\ recPc' = "listed"
    /\ \E out \in ConvertOutcomes : recInList' = Entry(out)
    /\ afterLoadCalls' = afterLoadCalls + HookCalls
    /\ UNCHANGED <<recFormat, recFields, recRegistered, recCheckFails, recKey,
                   recInMap, recResult>>

\* cm.configs, cm.configMaps and the caches are updated; return nil
StoreRecord ==
    /\ recPc = "listed"
    /\ recPc' = "stored"
    /\ recResult' = "nil"
    /\ UNCHANGED <<recFormat, recFields, recRegistered, recCheckFails, recKey,
                   recInMap, recInList, afterLoadCalls>>

NextRecord ==
    /\ \/ IndexRecord
       \/ ListRecord
       \/ StoreRecord
    /\ UNCHANGED <<storeVars, hotVars, loadVars, auxVars>>

(***************************************************************************)
(* Loading an unchanged file again.                                        *)
(***************************************************************************)
\* for _, v := range item { ...; break }: the value of whichever entry the
\* map iteration yields first; Go leaves the order unspecified
FirstValueOfRange(f) ==
    IF \A k \in IdKeys : f[k] = "absent" THEN {""}
    ELSE {FormatValue(f[k]) : k \in {c \in IdKeys : f[c] # "absent"}}

\* one load of the file: configMap[id] = item if id # "", DataList stored
LoadFilePass ==
    /\ Len(rlKeys) < MaxPass
    /\ \E id \in (IF rlFormat = "json" THEN {ExtractIdJson(rlFields)}
                  ELSE FirstValueOfRange(rlFields)) :
           rlKeys' = Append(rlKeys, id)
    /\ rlLists' = Append(rlLists, <<rlFields>>)
    /\ UNCHANGED <<rlFormat, rlFields>>

NextReloadPass ==
    /\ LoadFilePass
    /\ UNCHANGED <<storeVars, hotVars, loadVars, recVars, lockVars, watchVars, scanVars,
                   wrVars, facVars, insVars>>

(***************************************************************************)
(* Calls on the manager and cm.mutex.                                      *)
(***************************************************************************)
Tasks == {1, 2}

Funcs == 1..MaxFuncs

\* goroutine t calls api (a lookup names config n)
Call(t, api, n) ==
    /\ callsLeft > 0
    /\ tk[t].pc \in {"idle", "returned"}
    /\ api = "RegisterReloadFunc" => reloadFuncs < MaxFuncs
    /\ tk' = [tk EXCEPT ![t] =
                 [api |-> api, name |-> n, inner |-> FALSE, todo |-> Names,
                  \* the first statement of the call
                  pc |-> IF api \in {"LoadAllConfigs", "Reload", "RegisterReloadFunc"}
                         THEN "lock"
                         ELSE IF api = "batchReloadConfigs" THEN "batch"
                         ELSE "lookup"]]
    /\ callsLeft' = callsLeft - 1
    /\ UNCHANGED <<cmMutex, reloadFuncs, funcCalls, owed, cached>>

\* cm.mutex.Lock() succeeds.  In Reload the next statement is
\* cm.LoadAllConfigs(), which begins with cm.mutex.Lock() again.
MutexLock(t) ==
    /\ tk[t].pc = "lock"
    /\ cmMutex = 0
    /\ cmMutex' = t
    /\ tk' = [tk EXCEPT ![t].pc =
                 IF tk[t].api = "RegisterReloadFunc" THEN "append"
                 ELSE IF tk[t].api = "Reload" /\ ~tk[t].inner THEN "lock"
                 ELSE "load",
                         ![t].inner = (tk[t].api = "Reload")]
    /\ UNCHANGED <<reloadFuncs, funcCalls, owed, cached, callsLeft>>

\* cm.reloadFuncs = append(cm.reloadFuncs, fn), and the deferred Unlock
AppendFunc(t) ==
    /\ tk[t].pc = "append"
    /\ reloadFuncs' = reloadFuncs + 1
    /\ cmMutex' = 0
    /\ tk' = [tk EXCEPT ![t].pc = "returned"]
    /\ UNCHANGED <<funcCalls, owed, cached, callsLeft>>

\* the walk of LoadAllConfigs loads the file of n: setConfigCache publishes it
LoadFile(t, n) ==
    /\ tk[t].pc = "load"
    /\ n \in tk[t].todo
    /\ cached' = cached \cup {n}
    /\ tk' = [tk EXCEPT ![t].todo = @ \ {n}]
    /\ UNCHANGED <<cmMutex, reloadFuncs, funcCalls, owed, callsLeft>>

\* LoadAllConfigs returns (deferred Unlock).  Reload then calls every reload
\* function and every OnConfigHotUpdate, and returns (deferred Unlock).
ReturnStep(t) ==
    /\ tk[t].pc = "load"
    /\ tk[t].todo = {}
    /\ cmMutex' = 0
    /\ IF tk[t].api = "Reload"
       THEN /\ funcCalls' = [f \in Funcs |-> IF f <= reloadFuncs
                                              THEN funcCalls[f] + 1
                                              ELSE funcCalls[f]]
            /\ owed' = {}
       ELSE UNCHANGED <<funcCalls, owed>>
    /\ tk' = [tk EXCEPT ![t].pc = "returned"]
    /\ UNCHANGED <<reloadFuncs, cached, callsLeft>>

\* globalIdMaps.Load() / globalSlices.Load() and the lookup.  A point lookup
\* of a name that is not in globalIdMaps goes on to Instance.GetConfig.
Lookup(t) ==
    /\ tk[t].pc = "lookup"
    /\ tk' = [tk EXCEPT ![t].pc =
                 IF tk[t].api = "GetConfigByIdWithName" /\ tk[t].name \notin cached
                 THEN "rlock" ELSE "returned"]
    /\ UNCHANGED <<cmMutex, reloadFuncs, funcCalls, owed, cached, callsLeft>>

\* Instance.GetConfig: cm.mutex.RLock(), the read of cm.configMaps, RUnlock
GetConfig(t) ==
    /\ tk[t].pc = "rlock"
    /\ cmMutex = 0
    /\ tk' = [tk EXCEPT ![t].pc = "returned"]
    /\ UNCHANGED <<cmMutex, reloadFuncs, funcCalls, owed, cached, callsLeft>>

\* batchReloadConfigs on the timer goroutine: it takes no lock, reloads and
\* notifies the business managers; cm.reloadFuncs is not used
HotUpdate(t) ==
    /\ tk[t].pc = "batch"
    /\ cached' = cached \cup {tk[t].name}
    /\ owed' = {f \in Funcs : f <= reloadFuncs}
    /\ tk' = [tk EXCEPT ![t].pc = "returned"]
    /\ UNCHANGED <<cmMutex, reloadFuncs, funcCalls, callsLeft>>

\* the steps goroutine t takes by itself
TaskStep(t) ==
    \/ MutexLock(t)
    \/ AppendFunc(t)
    \/ \E n \in Names : LoadFile(t, n)
    \/ ReturnStep(t)
    \/ Lookup(t)
    \/ GetConfig(t)
    \/ HotUpdate(t)

NextLocks ==
    /\ \/ \E t \in Tasks, n \in Names,
             api \in {"LoadAllConfigs", "Reload", "RegisterReloadFunc",
                      "GetConfigByIdWithName", "GetAllConfigList",
                      "batchReloadConfigs"} : Call(t, api, n)
       \/ \E t \in Tasks : TaskStep(t)
    /\ UNCHANGED <<storeVars, hotVars, loadVars, recVars, rlVars, watchVars, scanVars,
                   wrVars, facVars, insVars>>

(***************************************************************************)
(* StartWatching.                                                          *)
(***************************************************************************)
WatcherIds == 1..MaxOps

\* fsnotify.NewWatcher() returns a watcher that did not exist before
NewWatcher == CHOOSE w \in WatcherIds :
                  /\ watchers[w] = "none"
                  /\ \A v \in WatcherIds : v < w => watchers[v] # "none"

\* goroutine t calls StartWatching; the walk that adds the directories to
\* the watcher will fail or not
StartWatching(t, fails) ==
    /\ swCallsLeft > 0
    /\ sw[t].pc \in {"idle", "returned", "failed"}
    /\ sw' = [sw EXCEPT ![t] = [pc |-> "check", mine |-> 0, walkFails |-> fails]]
    /\ swCallsLeft' = swCallsLeft - 1
    /\ UNCHANGED <<cmWatcher, watchers, listeners>>

\* if cm.watcher != nil { return nil }, read without any lock
SwCheck(t) ==
    /\ sw[t].pc = "check"
    /\ sw' = [sw EXCEPT ![t].pc = IF cmWatcher # 0 THEN "returned" ELSE "create"]
    /\ UNCHANGED <<cmWatcher, watchers, listeners, swCallsLeft>>

\* fsnotify.NewWatcher() and the walk adding every directory; on a walk
\* error the watcher is closed and the error returned
SwCreate(t) ==
    /\ sw[t].pc = "create"
    /\ LET w == NewWatcher
       IN /\ watchers' = [watchers EXCEPT ![w] = IF sw[t].walkFails THEN "closed"
                                                                    ELSE "open"]
          /\ sw' = [sw EXCEPT ![t].mine = w,
                              ![t].pc = IF sw[t].walkFails THEN "failed" ELSE "assign"]
    /\ UNCHANGED <<cmWatcher, listeners, swCallsLeft>>

\* cm.watcher = watcher
SwAssign(t) ==
    /\ sw[t].pc = "assign"
    /\ cmWatcher' = sw[t].mine
    /\ sw' = [sw EXCEPT ![t].pc = "spawn"]
    /\ UNCHANGED <<watchers, listeners, swCallsLeft>>

\* go func() { ... }() and return nil: the caller does not wait
SwSpawn(t) ==
    /\ sw[t].pc = "spawn"
    /\ listeners' = [listeners EXCEPT ![sw[t].mine] = "running"]
    /\ sw' = [sw EXCEPT ![t].pc = "returned"]
    /\ UNCHANGED <<cmWatcher, watchers, swCallsLeft>>

\* the owner of the manager stops the watch: cm.watcher.Close()
CloseWatcher ==
    /\ cmWatcher # 0
    /\ watchers[cmWatcher] = "open"
    /\ watchers' = [watchers EXCEPT ![cmWatcher] = "closed"]
    /\ UNCHANGED <<sw, cmWatcher, listeners, swCallsLeft>>

\* the listener of w finds watcher.Events or watcher.Errors closed and
\* returns; its deferred watcher.Close() runs
ListenerExit(w) ==
    /\ listeners[w] = "running"
    /\ watchers[w] = "closed"
    /\ listeners' = [listeners EXCEPT ![w] = "ended"]
    /\ UNCHANGED <<sw, cmWatcher, watchers, swCallsLeft>>

NextWatch ==
    /\ \/ \E t \in Tasks, fails \in BOOLEAN : StartWatching(t, fails)
       \/ \E t \in Tasks : SwCheck(t)
       \/ \E t \in Tasks : SwCreate(t)
       \/ \E t \in Tasks : SwAssign(t)
       \/ \E t \in Tasks : SwSpawn(t)
       \/ CloseWatcher
       \/ \E w \in WatcherIds : ListenerExit(w)
    /\ UNCHANGED <<storeVars, hotVars, loadVars, recVars, rlVars, lockVars, scanVars,
                   wrVars, facVars, insVars>>

(***************************************************************************)
(* File names: the directory scan and the event filter.                    *)
(***************************************************************************)
\* A.json, A~.json, ~$A.xlsx, #A.tsv, B.txt
FileNames ==
    { <<"A", ".", "j", "s", "o", "n">>,
      <<"A", "~", ".", "j", "s", "o", "n">>,
      <<"~", "$", "A", ".", "x", "l", "s", "x">>,
      <<"#", "A", ".", "t", "s", "v">>,
      <<"B", ".", "t", "x", "t">> }

\* strings.HasPrefix(s, prefix)
HasPrefix(s, prefix) ==
    /\ Len(s) >= Len(prefix)
    /\ SubSeq(s, 1, Len(prefix)) = prefix

\* strings.Contains(s, c) for a one-character c
Contains(s, c) == \E i \in 1..Len(s) : s[i] = c

\* position of the final dot; 0 if there is none
LastDot(s) ==
    IF Contains(s, ".")
    THEN CHOOSE i \in 1..Len(s) :
             /\ s[i] = "."
             /\ \A j \in (i + 1)..Len(s) : s[j] # "."
    ELSE 0

\* filepath.Ext(s): the suffix beginning at the final dot
Ext(s) == IF LastDot(s) = 0 THEN <<>> ELSE SubSeq(s, LastDot(s), Len(s))

\* strings.TrimSuffix(filepath.Base(path), filepath.Ext(path))
TrimExt(s) == IF LastDot(s) = 0 THEN s ELSE SubSeq(s, 1, LastDot(s) - 1)

\* the extensions that have a loader
ConfigExts ==
    { <<".", "x", "l", "s", "x">>, <<".", "x", "l", "s">>,
      <<".", "j", "s", "o", "n">>, <<".", "t", "s", "v">> }

\* the temporary-file test of the listener
IsTempFile(base) ==
    \/ HasPrefix(base, <<"~", "$">>)
    \/ Contains(base, "~")
    \/ Contains(base, "#")

\* LoadAllConfigs begins its walk of cm.configDir
ScanBegin ==
    /\ scanPc = "idle"
    /\ scanPc' = "walk"
    /\ scanTodo' = {f \in FileNames : scanDir[f] # "absent"}
    /\ UNCHANGED <<scanDir, cfgNames, scanPending, contributors>>

\* the walk function on file f: switch on the extension, then the loader,
\* which stores the config under the base name without its extension; the
\* format handler panics on a malformed file
ScanFile(f) ==
    /\ scanPc = "walk"
    /\ f \in scanTodo
    /\ scanTodo' = scanTodo \ {f}
    /\ IF Ext(f) \notin ConfigExts
       THEN UNCHANGED <<scanPc, cfgNames, contributors>>
       ELSE IF scanDir[f] = "bad"
       THEN /\ scanPc' = "panicked"
            /\ UNCHANGED <<cfgNames, contributors>>
       ELSE /\ cfgNames' = cfgNames \cup {TrimExt(f)}
            /\ contributors' = contributors \cup {f}
            /\ UNCHANGED scanPc
    /\ UNCHANGED <<scanDir, scanPending>>

\* the walk has visited every file: LoadAllConfigs returns
ScanEnd ==
    /\ scanPc = "walk"
    /\ scanTodo = {}
    /\ scanPc' = "done"
    /\ UNCHANGED <<scanDir, scanTodo, cfgNames, scanPending, contributors>>

\* the listener takes a Write or Create event for file f: temporary files
\* are skipped, then the extension and cm.configs are tested
WatchEvent(f) ==
    /\ scanPc = "done"
    /\ scanDir[f] # "absent"
    /\ IF /\ ~IsTempFile(f)
          /\ Ext(f) \in ConfigExts
          /\ TrimExt(f) \in cfgNames
       THEN /\ scanPending' = scanPending \cup {TrimExt(f)}
            /\ contributors' = contributors \cup {f}
       ELSE UNCHANGED <<scanPending, contributors>>
    /\ UNCHANGED <<scanDir, scanPc, scanTodo, cfgNames>>

NextScan ==
    /\ \/ ScanBegin
       \/ \E f \in FileNames : ScanFile(f)
       \/ ScanEnd
       \/ \E f \in FileNames : WatchEvent(f)
    /\ UNCHANGED <<storeVars, hotVars, loadVars, recVars, rlVars, lockVars, watchVars,
                   wrVars, facVars, insVars>>

(***************************************************************************)
(* Hot reload seen from the manager that watches.                          *)
(***************************************************************************)
\* GetInstance(): the global singleton manager
GetInstance == "instance"

\* the file of loaded config n is written with well-formed content and the
\* listener of the watching manager takes the event
WriteEvent(n) ==
    /\ FileEvent(n, "ok")
    /\ stale' = [stale EXCEPT ![n] = TRUE]
    /\ UNCHANGED watching

\* manager := GetInstance(); manager.batchReloadConfigs(configsToReload):
\* the reloaded names are stored in, and notified by, that manager
InstanceBatchReload(i) ==
    /\ BatchReloadConfigs(i)
    /\ stale' = [n \in Names |->
                    IF GetInstance = watching /\ n \in FoundFiles(reloads[i].batch)
                    THEN FALSE ELSE stale[n]]
    /\ UNCHANGED watching

NextWatchReload ==
    /\ \/ \E n \in Names : WriteEvent(n)
       \/ (Tick \/ TimerFire \/ TriggerBatchReload \/ FinishReloadStep)
            /\ UNCHANGED wrVars
       \/ \E i \in 1..2 : InstanceBatchReload(i)
    /\ UNCHANGED <<storeVars, loadVars, recVars, rlVars, lockVars, watchVars, scanVars,
                   facVars, insVars>>

(***************************************************************************)
(* The Config233 facade: loadConfig, ConfigDataRepository.Put and          *)
(* RegisterForHotUpdate.                                                   *)
(***************************************************************************)
\* setFieldValue on the field of a new object: strconv.ParseInt or
\* ParseUint of the cell; on an error nothing is set and the field keeps
\* the zero value reflect.New(typ) gave it
SetFieldValue(kind, cell) ==
    IF cell = "12" THEN 12
    ELSE IF cell = "-3" /\ kind = "int" THEN 0 - 3
    ELSE 0

\* variant: a row whose cell does not convert is left out of the result
ReadConfigAndORMStrict(kind, rows) ==
    LET good == SelectSeq(rows, LAMBDA c : c \in {"12", "-3"})
    IN [i \in DOMAIN good |-> SetFieldValue(kind, good[i])]

\* ReadConfigAndORM: one object per data row, appended whatever its cells
\* converted to
ReadConfigAndORM(kind, rows) ==
    [i \in DOMAIN rows |-> SetFieldValue(kind, rows[i])]

\* AddConfigChangeListener: a listener that only takes the list it is given
\* ("passive") or that calls Get, GetUIDMap or Put on the repository
AddChangeListener(k) ==
    /\ facPc = "idle"
    /\ listener = "none"
    /\ listener' = k
    /\ UNCHANGED <<facKind, cells, repoList, repoMu, facPc, hotRegistered,
                   injected, loadsLeft>>

\* RegisterForHotUpdate(obj): injectFields copies GetUIDMap into the field;
\* registerMethods does nothing, and no change listener is added
RegisterForHotUpdate ==
    /\ facPc = "idle"
    /\ ~hotRegistered
    /\ hotRegistered' = TRUE
    /\ injected' = repoList
    /\ UNCHANGED <<facKind, cells, repoList, repoMu, facPc, listener, loadsLeft>>

\* loadConfig, from Start or from handleFileChange: the handler reads the
\* rows, then Put takes r.mu and stores the list
LoadConfig(rows) ==
    /\ facPc = "idle"
    /\ loadsLeft > 0
    /\ cells' = rows
    /\ repoList' = ReadConfigAndORM(facKind, rows)
    /\ repoMu' = TRUE
    /\ facPc' = "notify"
    /\ loadsLeft' = loadsLeft - 1
    /\ UNCHANGED <<facKind, listener, hotRegistered, injected>>

\* Put calls the listener with r.mu still held (the Unlock is deferred): a
\* listener that calls Get, GetUIDMap or Put waits for r.mu
PutNotify ==
    /\ facPc = "notify"
    /\ IF listener \in {"Get", "GetUIDMap", "Put"}
       THEN /\ facPc' = "blocked"
            /\ UNCHANGED repoMu
       ELSE /\ facPc' = "idle"
            /\ repoMu' = FALSE
    /\ UNCHANGED <<facKind, cells, repoList, listener, hotRegistered, injected,
                   loadsLeft>>

NextFacade ==
    /\ \/ \E k \in {"passive", "Get", "GetUIDMap", "Put"} : AddChangeListener(k)
       \/ RegisterForHotUpdate
       \/ \E rows \in [1..MaxRows -> {"", "12", "-3", "x"}] : LoadConfig(rows)
       \/ PutNotify
    /\ UNCHANGED <<storeVars, hotVars, loadVars, recVars, rlVars, lockVars, watchVars,
                   scanVars, wrVars, insVars>>

(***************************************************************************)
(* Loads by two manager instances.                                         *)
(***************************************************************************)
\* manager m loads the file of n from its directory: the loader stores the
\* pass in m and setConfigCache publishes it in the package-level store
ManagerLoad(m, n) ==
    /\ insPass <= 2 * MaxPass
    /\ held' = [held EXCEPT ![m][n] = insPass]
    /\ shared' = [shared EXCEPT ![n] = [by |-> m, pass |-> insPass]]
    /\ insPass' = insPass + 1

\* the watcher of manager w sees the file of n, which w has loaded, change;
\* triggerBatchReload then runs GetInstance().batchReloadConfigs
WatcherReload(w, n) ==
    /\ held[w][n] > 0
    /\ ManagerLoad(GetInstance, n)
    /\ lastWatcher' = w
    /\ lastReloaded' = GetInstance

NextInstances ==
    /\ \/ \E m \in {"instance", "other"}, n \in Names :
             ManagerLoad(m, n) /\ UNCHANGED <<lastWatcher, lastReloaded>>
       \/ \E w \in {"instance", "other"}, n \in Names : WatcherReload(w, n)
    /\ UNCHANGED <<storeVars, hotVars, loadVars, recVars, rlVars, lockVars, watchVars,
                   scanVars, wrVars, facVars>>

\* the state of the parts above when a specification begins: the part in
\* use is as its construction leaves it, with its inputs drawn from their
\* sets, and the others stay idle
InitAux(part) ==
    /\ rlFormat \in (IF part = "reload" THEN {"json", "tsv"} ELSE {"json"})
    /\ rlFields \in (IF part = "reload" THEN [IdKeys -> IdValues]
                     ELSE {[k \in IdKeys |-> "absent"]})
    /\ rlKeys = <<>>
    /\ rlLists = <<>>
    /\ tk = [t \in Tasks |-> [api |-> "none", pc |-> "idle", name |-> "A",
                              inner |-> FALSE, todo |-> {}]]
    /\ cmMutex = 0
    /\ reloadFuncs \in (IF part = "locks" THEN 0..MaxFuncs ELSE {0})
    /\ funcCalls = [f \in Funcs |-> 0]
    /\ owed = {}
    /\ cached \in (IF part = "locks" THEN SUBSET Names ELSE {{}})
    /\ callsLeft = (IF part = "locks" THEN MaxOps ELSE 0)
    /\ sw = [t \in Tasks |-> [pc |-> "idle", mine |-> 0, walkFails |-> FALSE]]
    /\ cmWatcher = 0
    /\ watchers = [w \in WatcherIds |-> "none"]
    /\ listeners = [w \in WatcherIds |-> "none"]
    /\ swCallsLeft = (IF part = "watcher" THEN MaxOps ELSE 0)
    /\ scanDir \in (IF part = "scan" THEN [FileNames -> {"absent", "ok", "bad"}]
                    ELSE {[f \in FileNames |-> "absent"]})
    /\ scanPc = (IF part = "scan" THEN "idle" ELSE "done")
    /\ scanTodo = {}
    /\ cfgNames = {}
    /\ scanPending = {}
    /\ contributors = {}
    /\ watching \in (IF part = "watchReload" THEN {"instance", "other"}
                     ELSE {"instance"})
    /\ stale = [n \in Names |-> FALSE]
    /\ facKind \in (IF part = "facade" THEN {"int", "uint"} ELSE {"int"})
    /\ cells = <<>>
    /\ repoList = <<>>
    /\ repoMu = FALSE
    /\ facPc = "idle"
    /\ listener = "none"
    /\ hotRegistered = FALSE
    /\ injected = <<>>
    /\ loadsLeft = (IF part = "facade" THEN MaxOps ELSE 0)
    /\ held = [m \in {"instance", "other"} |-> [n \in Names |-> 0]]
    /\ shared = [n \in Names |-> [by |-> "none", pass |-> 0]]
    /\ insPass = (IF part = "instances" THEN 1 ELSE 2 * MaxPass + 1)
    /\ lastWatcher = "instance"
    /\ lastReloaded = "instance"

NextHot ==
    /\ \/ \E n \in Names, st \in {"ok", "bad"} : FileEvent(n, st)
       \/ \E n \in Names : FileRemove(n)
       \/ Tick
       \/ TimerFire
       \/ TriggerBatchReload
       \/ BatchReloadStep
       \/ FinishReloadStep
    /\ UNCHANGED <<storeVars, loadVars, recVars, auxVars>>

NextCoordinator ==
    /\ \/ \E n \in Names, st \in {"ok", "bad"} : FileEvent(n, st)
       \/ Tick
       \/ TimerFire
       \/ TriggerBatchReload
       \/ BatchReloadStep
       \/ FinishReloadStep
    /\ UNCHANGED <<storeVars, loadVars, recVars, auxVars>>

Init == InitStore /\ InitHot /\ InitNoLoad /\ InitNoRecord /\ InitAux("none")

SpecHot == Init /\ [][NextHot]_vars

\* timers fire, goroutines run and time passes
LiveSpecHot ==
    /\ Init /\ [][NextCoordinator]_vars
    /\ WF_vars(Tick /\ UNCHANGED <<storeVars, loadVars, recVars, auxVars>>)
    /\ WF_vars(TimerFire /\ UNCHANGED <<storeVars, loadVars, recVars, auxVars>>)
    /\ WF_vars(TriggerBatchReload /\ UNCHANGED <<storeVars, loadVars, recVars, auxVars>>)
    /\ WF_vars(BatchReloadStep /\ UNCHANGED <<storeVars, loadVars, recVars, auxVars>>)
    /\ WF_vars(FinishReloadStep /\ UNCHANGED <<storeVars, loadVars, recVars, auxVars>>)

(***************************************************************************)
(* Properties of the store.                                                *)
(***************************************************************************)
AllReturned == \A l \in Loaders : loader[l].pc = "idle"

Quiescent == AllReturned /\ builder.pc = "idle" /\ rebuilder.pc = "idle"

\* C1: one list read or one id lookup of name N returns records of N that
\* were all converted by one and the same load pass of N, whatever loads of
\* N run meanwhile.
C1_ReadFromOnePass ==
    reader.pc = "done" =>
        /\ \A i \in DOMAIN reader.result : reader.result[i].name = reader.name
        /\ \A i, j \in DOMAIN reader.result :
               reader.result[i].pass = reader.result[j].pass

\* a list read of N has returned one version while a load task of N with
\* another pass is between its two publications
C1_Witness ==
    /\ reader.pc = "done"
    /\ reader.op = "list"
    /\ reader.result # <<>>
    /\ \E l \in Loaders :
          /\ loader[l].pc \in {"sliceLoad", "sliceCAS"}
          /\ loader[l].name = reader.name
          /\ loader[l].pass # reader.result[1].pass

\* C2: at every instant the id-index and the list the store exposes for a
\* name N come from the same conversion pass (both absent counts as pass 0).
C2_SamePassPublished ==
    \A n \in Names : CurIdMaps[n].obj[1] = CurSlices[n].obj[1]

\* C3: once all concurrent setConfigCache writers have returned, every name
\* whose writers did not overlap holds exactly the id map and the list its
\* last writer supplied, and every writer did return (a failed
\* CompareAndSwap only repeats the loop).
C3_NoLostWrite ==
    AllReturned =>
        \A n \in Names :
            (Has(configMaps, n) /\ ~overlap[n]) =>
                /\ CurIdMaps[n] = LoadedEntry(n, configMaps[n].obj[1])
                /\ CurSlices[n] = LoadedEntry(n, configMaps[n].obj[1])

\* writers of two distinct names have raced (a CompareAndSwap failed and was
\* retried), all have returned and both names are in the store
C3_Witness ==
    /\ AllReturned
    /\ casFailed
    /\ \A n \in Names : Has(CurIdMaps, n) /\ Has(CurSlices, n) /\ ~overlap[n]

\* C4: no step changes a top-level map that was already published, and a
\* publication of name N (setConfigCache, BuildIdIndex) swaps in a newly
\* built map in which every other name has the very object the replaced
\* generation had.
C4_Publication ==
    /\ Len(idMapsHeap') >= Len(idMapsHeap)
    /\ Len(slicesHeap') >= Len(slicesHeap)
    /\ \A i \in DOMAIN idMapsHeap : idMapsHeap'[i] = idMapsHeap[i]
    /\ \A i \in DOMAIN slicesHeap : slicesHeap'[i] = slicesHeap[i]
    /\ \A l \in Loaders :
          /\ (loader[l].pc = "idCAS" /\ loader'[l].pc = "sliceLoad") =>
                /\ globalIdMaps' = Len(idMapsHeap) + 1
                /\ \A m \in Names \ {loader[l].name} :
                       idMapsHeap'[globalIdMaps'][m] = CurIdMaps[m]
          /\ (loader[l].pc = "sliceCAS" /\ loader'[l].pc = "idle") =>
                /\ globalSlices' = Len(slicesHeap) + 1
                /\ \A m \in Names \ {loader[l].name} :
                       slicesHeap'[globalSlices'][m] = CurSlices[m]
    /\ (builder.pc = "cas" /\ builder'.pc = "idle") =>
          /\ globalIdMaps' = Len(idMapsHeap) + 1
          /\ \A m \in Names \ {builder.name} :
                 idMapsHeap'[globalIdMaps'][m] = CurIdMaps[m]

C4_CopyOnWrite == [][C4_Publication]_vars

\* both names are in the store, published by load tasks, and BuildIdIndex has
\* republished one of them next to the entry of the other
C4_Witness ==
    /\ Len(idMapsHeap) >= 4
    /\ Len(slicesHeap) >= 3
    /\ \A n \in Names : Has(CurIdMaps, n) /\ Has(CurSlices, n)
    /\ \E n \in Names : CurIdMaps[n].obj[2] > 0

\* C5: in every store state left behind by loads, reloads and index
\* rebuilds (no setConfigCache, BuildIdIndex or buildGlobalCaches call in
\* flight), a name is in the id-index mapping iff it is in the list mapping.
C5_BothIndexes ==
    Quiescent => \A n \in Names : Has(CurIdMaps, n) <=> Has(CurSlices, n)

\* C35: once every load task has returned, the entries of the manager for a
\* name (cm.configs, cm.configMaps) and the id-index and the list of the
\* store for that name all come from one load pass, overlapping loads of
\* the name included.
C35_OnePassEverywhere ==
    AllReturned =>
        \A n \in Names :
            Has(configMaps, n) =>
                /\ configs[n].obj[1] = configMaps[n].obj[1]
                /\ CurIdMaps[n].obj[1] = configMaps[n].obj[1]
                /\ CurSlices[n].obj[1] = configMaps[n].obj[1]

\* C36: once the load tasks and the rebuild have returned, every name whose
\* loads did not overlap holds in the store the data of its most recent
\* load: a rebuild running next to the publications loses none of them.
C36_RebuildKeepsLatest ==
    Quiescent =>
        \A n \in Names :
            (Has(configMaps, n) /\ ~overlap[n]) =>
                /\ CurIdMaps[n].obj[1] = configMaps[n].obj[1]
                /\ CurSlices[n].obj[1] = configMaps[n].obj[1]

(***************************************************************************)
(* Properties of the Config233 facade and of manager instances.            *)
(***************************************************************************)
\* C31: once an object is registered for hot update and no load is under
\* way, its injected field holds the data the repository holds, whatever
\* reloads have happened since.
C31_InjectedFollowsReload ==
    (hotRegistered /\ facPc = "idle") => injected = repoList

C39_ListenerNeverBlocked == facPc # "blocked"

\* C38: a load changes the store entry of a name only if the name was not
\* stored or was stored by the manager that loads, and a hot reload begun
\* by one manager's watcher is run on that manager.
C38_InstancesIsolated ==
    /\ [][\A n \in Names :
             shared'[n] # shared[n] =>
                 (shared[n].by = "none" \/ shared'[n].by = shared[n].by)]_vars
    /\ [](lastReloaded = lastWatcher)

(***************************************************************************)
(* Specifications of the store.                                            *)
(***************************************************************************)
\* concurrent load tasks only
(***************************************************************************)
(* Properties of the hot-reload coordinator.                               *)
(***************************************************************************)
\* the batch reload begun for the current burst has run batchReloadConfigs
BurstReloadRan ==
    /\ burstReloads = 1
    /\ \A i \in DOMAIN reloads : reloads[i].pc # "reload"

C8_CooldownRespected ==
    [][(Len(reloads') > Len(reloads) /\ pendingReloads # {}) =>
          (sinceCompletion = NoReloadYet \/ sinceCompletion >= ReloadCooldown)]_vars

C8_Witness ==
    /\ Len(reloads) = 1
    /\ reloads[1].pc = "reload"
    /\ sinceCompletion = ReloadCooldown
    /\ lastBranch = "drain"

\* C9: at most one triggerBatchReload is between drain and finish, and a timer
\* callback that runs while one is there starts nothing, leaves the pending
\* set alone and arms a timer for RetryDelay.
C9_OneReloadAtATime ==
    /\ [](Len(reloads) <= 1)
    /\ [][(callbacks' < callbacks /\ isReloading) =>
            /\ pendingReloads' = pendingReloads
            /\ reloads' = reloads
            /\ hrsTimer' = RetryDelay
            /\ timers' = [timers EXCEPT ![RetryDelay] = @ + 1]]_vars

C9_Witness ==
    /\ lastBranch = "retry"
    /\ isReloading
    /\ pendingReloads # {}
    /\ Len(reloads) = 1
    /\ reloads[1].pc = "reload"
    /\ hrsTimer = RetryDelay

\* C10: every step keeps each pending name pending or moves it into the
\* batch of the reload the step begins, and every pending name is eventually
\* drained into a batch reload.
C10_PendingEventuallyReloaded ==
    /\ [][\A n \in pendingReloads :
             \/ n \in pendingReloads'
             \/ /\ Len(reloads') = Len(reloads) + 1
                /\ n \in reloads'[Len(reloads')].batch]_vars
    /\ \A n \in Names :
           (n \in pendingReloads)
               ~> (\E i \in DOMAIN reloads : n \in reloads[i].batch)

\* C27: the hot-reload coordinator has no terminal state: whenever it is not
\* idle it eventually returns to Idle.
C27_ReturnsToIdle == (~Idle) ~> Idle

\* C28: at any time at most one hot-reload timer is armed or has its
\* callback outstanding (started and not yet returned).
C28_OneTimer == Armed + callbacks + Len(reloads) <= 1

\* C33: a malformed or unreadable file met during a hot-reload batch does
\* not end the process: no batch reload is left panicked, so the batch
\* reaches the critical section that clears the in-progress flag.
C33_BadFileContained ==
    /\ ~crashed
    /\ \A i \in DOMAIN reloads : reloads[i].pc # "panicked"

\* C34: the step of a batch reload that calls OnConfigLoadComplete is taken
\* only after the in-progress flag of that batch has been cleared.
C34_FlagClearedBeforeNotify ==
    [][\A i \in DOMAIN reloads :
          (/\ BatchReloadConfigs(i)
           /\ ~crashed'
           /\ NotifyCalls(FoundFiles(reloads[i].batch)) > 0) => ~isReloading]_vars

C40_PendingIsScheduled ==
    (pendingReloads # {} /\ ~isReloading) => Armed + callbacks > 0

\* names are pending again after a batch reload has completed, and the
\* timer that will drain them is armed
C40_Witness ==
    /\ pendingReloads # {}
    /\ ~isReloading
    /\ reloads = <<>>
    /\ sinceCompletion # NoReloadYet
    /\ Armed > 0

(***************************************************************************)
(* Properties of the notifications of LoadAllConfigs and                   *)
(* batchReloadConfigs.                                                     *)
(***************************************************************************)
Range(q) == {q[i] : i \in DOMAIN q}

\* C11: when a hot-reload batch is over, every observer has received no
\* notification if no name of the batch was reloaded, and otherwise exactly
\* one, listing exactly the names that were reloaded, each once.
C11_BatchNotification ==
    (op = "batchReloadConfigs" /\ OpOver) =>
        \A o \in Observers :
            IF opLoaded = {}
            THEN opDelivered[o] = <<>>
            ELSE /\ Len(opDelivered[o]) = 1
                 /\ Range(opDelivered[o][1]) = opLoaded
                 /\ Len(opDelivered[o][1]) = Cardinality(opLoaded)

PresentFiles == {n \in Names : dirFiles[n] # "missing"}

\* C13: a call of LoadAllConfigs that returns success has given every
\* observer no notification if it loaded nothing, and otherwise exactly one,
\* listing exactly the names it loaded, each once.
C13_OneCallPerLoad ==
    (op = "LoadAllConfigs" /\ opPc = "returned" /\ opResult = "ok") =>
        \A o \in Observers :
            IF opLoaded = {}
            THEN opDelivered[o] = <<>>
            ELSE /\ Len(opDelivered[o]) = 1
                 /\ Range(opDelivered[o][1]) = opLoaded
                 /\ Len(opDelivered[o][1]) = Cardinality(opLoaded)

\* C14: once the initial load has returned, and after every hot-reload batch
\* since, every observer has received OnFirstAllConfigDone exactly once and
\* OnConfigLoadComplete once per load or batch that changed something.
C14_FirstDoneOnce ==
    /\ \A o \in Observers : firstDone[o] <= 1
    /\ (opPc = "returned" /\ opResult # "error") =>
           \A o \in Observers :
               /\ firstDone[o] = 1
               /\ totalComplete[o] = changedOps

\* C15: no notification of a LoadAllConfigs call is delivered before every
\* file of the directory has been loaded and stored, and when the call
\* returns success every file has been loaded and stored and every loaded
\* name has been notified to every observer.
C15_ReturnsAfterAllLoads ==
    op = "LoadAllConfigs" =>
        /\ (\E o \in Observers : opDelivered[o] # <<>>) =>
               (PresentFiles \subseteq opLoaded /\ opLoaded \subseteq mgrConfigs)
        /\ (opPc = "returned" /\ opResult = "ok") =>
               /\ PresentFiles \subseteq opLoaded
               /\ opLoaded \subseteq mgrConfigs
               /\ \A o \in Observers :
                      opLoaded \subseteq {q[1] : q \in Range(opDelivered[o])}

C15_Witness ==
    /\ op = "LoadAllConfigs"
    /\ opPc = "returned"
    /\ opResult = "ok"
    /\ opLoaded = Names
    /\ \A o \in Observers : Len(opDelivered[o]) = 2

\* C16: a call of LoadAllConfigs whose walk meets no error returns success
\* with every well-formed file's name in the store and no malformed file's.
C16_MalformedContained ==
    (op = "LoadAllConfigs" /\ OpOver /\ ~opWalkFails) =>
        /\ opPc = "returned"
        /\ opResult = "ok"
        /\ \A n \in Names :
              /\ dirFiles[n] = "ok" => n \in mgrConfigs
              /\ dirFiles[n] = "bad" => n \notin mgrConfigs

\* C17: a call of LoadAllConfigs returns, with an error exactly if the walk
\* met one, and then without having notified any observer.
C17_ErrorIffWalkFails ==
    (op = "LoadAllConfigs" /\ OpOver) =>
        /\ opPc = "returned"
        /\ opResult = "error" <=> opWalkFails
        /\ opWalkFails => \A o \in Observers : opDelivered[o] = <<>>

\* C30: within one notification round the business managers are called one
\* after another in the order of their registration: at any moment an
\* earlier registered manager has received as many calls as a later one, or
\* one more.
C30_RegistrationOrder ==
    \A p \in Observers : \A o \in Observers :
        p < o => Len(opCalls[p]) \in {Len(opCalls[o]), Len(opCalls[o]) + 1}

C30_Witness ==
    /\ op = "batchReloadConfigs"
    /\ opPc = "notify"
    /\ Len(opCalls[1]) = 1
    /\ Len(opCalls[2]) = 0
    /\ totalComplete[1] > 1

(***************************************************************************)
(* Properties of the calls on the manager.                                 *)
(***************************************************************************)
\* C22: a write to the file of a loaded config is eventually followed by the
\* watching manager storing the new content and notifying its observers.
C22_WriteEventuallyStored ==
    \A n \in Names : stale[n] ~> ~stale[n]

\* C23: a call to Reload() reloads the configuration files, invokes every
\* registered reload function and returns to its caller.
C23_ReloadReturns ==
    \A t \in Tasks :
        (tk[t].api = "Reload" /\ tk[t].pc = "lock") ~> (tk[t].pc = "returned")

\* C24: every registered reload function is invoked after each completed hot
\* update.
C24_FuncsAfterHotUpdate ==
    \A f \in Funcs : (f \in owed) ~> (f \notin owed)

\* C29: a point lookup or list read never waits on a lock, even while a
\* writer holds cm.mutex for the whole of a load.
C29_ReadersNeverWait ==
    \A t \in Tasks :
        ~(/\ tk[t].api \in {"GetConfigByIdWithName", "GetAllConfigList"}
          /\ tk[t].pc = "rlock"
          /\ cmMutex # 0)

\* C26: however StartWatching is called on one manager, at most one watcher
\* and one listener goroutine exist for it.
C26_OneWatcher ==
    /\ Cardinality({w \in WatcherIds : watchers[w] = "open"}) <= 1
    /\ Cardinality({w \in WatcherIds : listeners[w] = "running"}) <= 1

\* C25: no file whose base name starts with "~$" or contains "~" or "#"
\* ever contributes a config name to the store or to the pending-reload set.
C25_NoTempFile == \A f \in contributors : ~IsTempFile(f)

(***************************************************************************)
(* Properties of loading again.                                            *)
(***************************************************************************)
\* C21: loading an unchanged file again leaves the id-index and the list of
\* its config name equal to those of the load before.
C21_ReloadIdempotent ==
    \A i \in 1..Len(rlKeys) : \A j \in 1..Len(rlKeys) :
        rlKeys[i] = rlKeys[j] /\ rlLists[i] = rlLists[j]

(***************************************************************************)
(* Properties of the load pass of a record.                                *)
(***************************************************************************)
\* C18: the id of a loaded record is the value of the first of id, ID, Id
\* (then itemId for Excel) that is present with a non-empty value.
C18_FirstNonEmptyId ==
    LET valued(k) == recFields[k] \notin {"absent", "empty"}
        expected ==
            IF valued("id") THEN FormatValue(recFields["id"])
            ELSE IF valued("ID") THEN FormatValue(recFields["ID"])
            ELSE IF valued("Id") THEN FormatValue(recFields["Id"])
            ELSE IF recFormat = "excel" /\ valued("itemId")
                 THEN FormatValue(recFields["itemId"])
            ELSE ""
    IN recPc # "input" => recKey = expected

C20_AfterLoadOnce ==
    (recPc = "stored" /\ recRegistered) => afterLoadCalls = 1

NextWriters == LoaderStep /\ UNCHANGED <<hotVars, loadVars, recVars, auxVars>>

SpecWriters == Init /\ [][NextWriters]_vars

\* load tasks and a reader
NextStore == (LoaderStep \/ ReaderStep) /\ UNCHANGED <<hotVars, loadVars, recVars, auxVars>>

SpecStore == Init /\ [][NextStore]_vars

\* load tasks and BuildIdIndex: the operations that publish one name
NextPublish == (LoaderStep \/ BuilderStep) /\ UNCHANGED <<hotVars, loadVars, recVars, auxVars>>

SpecPublish == Init /\ [][NextPublish]_vars

\* load tasks and the index rebuilds BuildIdIndex and buildGlobalCaches
NextIndex == (LoaderStep \/ BuilderStep \/ RebuilderStep) /\ UNCHANGED <<hotVars, loadVars, recVars, auxVars>>

SpecIndex == Init /\ [][NextIndex]_vars

\* hot-reload batches of a loaded manager, and what its observers do
NextBatch ==
    /\ \/ BatchStep
       \/ \E o \in Observers : ObserverMutate(o)
    /\ UNCHANGED <<storeVars, hotVars, recVars, auxVars>>

\* a manager whose initial load is done
InitBatch == InitStore /\ InitHot /\ InitLoadedManager /\ InitNoRecord /\ InitAux("none")

SpecBatch == InitBatch /\ [][NextBatch]_vars

\* calls of LoadAllConfigs on a new manager
NextLoadAll == LoadAllStep /\ UNCHANGED <<storeVars, hotVars, recVars, auxVars>>

\* a manager just constructed
InitLoadAll == InitStore /\ InitHot /\ InitNewManager /\ InitNoRecord /\ InitAux("none")

SpecLoadAll == InitLoadAll /\ [][NextLoadAll]_vars

\* the initial load of a new manager, then hot-reload batches
NextLifecycle ==
    /\ \/ op = "none" /\ (\E fails \in BOOLEAN : LaBegin(fails))
       \/ \E n \in Names : LaLoad(n)
       \/ LaWalkError
       \/ LaWalkDone
       \/ \E n \in Names : LaNotify(n)
       \/ LaReturn
       \/ op # "none" /\ opResult # "error" /\ BatchStep
       \/ \E o \in Observers : ObserverMutate(o)
    /\ UNCHANGED <<storeVars, hotVars, recVars, auxVars>>

SpecLifecycle ==
    InitLoadAll /\ [][NextLifecycle]_vars

\* the load pass of any one record
InitRecordPass == InitStore /\ InitHot /\ InitNoLoad /\ InitRecord /\ InitAux("none")

SpecRecord == InitRecordPass /\ [][NextRecord]_vars

\* the file of one record loaded MaxPass times
InitReload == InitStore /\ InitHot /\ InitNoLoad /\ InitNoRecord /\ InitAux("reload")

SpecReloadPass == InitReload /\ [][NextReloadPass]_vars

\* goroutines calling the manager
InitCalls == InitStore /\ InitHot /\ InitNoLoad /\ InitNoRecord /\ InitAux("locks")

SpecLocks == InitCalls /\ [][NextLocks]_vars

\* every goroutine that can take a step eventually takes one
LiveSpecLocks ==
    /\ SpecLocks
    /\ \A t \in Tasks :
          WF_vars(TaskStep(t) /\ UNCHANGED <<storeVars, hotVars, loadVars, recVars,
                                               rlVars, watchVars, scanVars, wrVars,
                                               facVars, insVars>>)

\* goroutines calling StartWatching
InitWatching == InitStore /\ InitHot /\ InitNoLoad /\ InitNoRecord /\ InitAux("watcher")

SpecWatcher == InitWatching /\ [][NextWatch]_vars

\* the initial scan of a directory, then file events
InitScanning == InitStore /\ InitHot /\ InitNoLoad /\ InitNoRecord /\ InitAux("scan")

SpecScan == InitScanning /\ [][NextScan]_vars

\* a manager watching its directory
InitWatchingManager == InitStore /\ InitHot /\ InitNoLoad /\ InitNoRecord /\ InitAux("watchReload")

\* timers fire, goroutines run and time passes
LiveSpecWatchReload ==
    /\ InitWatchingManager /\ [][NextWatchReload]_vars
    /\ WF_vars(NextWatchReload /\ Tick)
    /\ WF_vars(NextWatchReload /\ TimerFire)
    /\ WF_vars(NextWatchReload /\ TriggerBatchReload)
    /\ WF_vars(NextWatchReload /\ FinishReloadStep)
    /\ WF_vars(NextWatchReload /\ \E i \in 1..2 : InstanceBatchReload(i))

\* one Config233 facade: loads, a change listener, a hot-update object
InitFacade == InitStore /\ InitHot /\ InitNoLoad /\ InitNoRecord /\ InitAux("facade")

SpecFacade == InitFacade /\ [][NextFacade]_vars

\* two managers in one process
InitInstances ==
    InitStore /\ InitHot /\ InitNoLoad /\ InitNoRecord /\ InitAux("instances")

SpecInstances == InitInstances /\ [][NextInstances]_vars

====
